---- MODULE Spec2Model ----
(***************************************************************************)
(* Model of letsencrypt/client/network2.py: the ACME v02 network client.   *)
(* One client object runs one flow operation; the server's answers are     *)
(* nondeterministic inputs.  poll_and_request_issuance is modelled step by *)
(* step at its blocking network calls, the other operations as one step.   *)
(***************************************************************************)
EXTENDS Integers, Sequences, FiniteSets, TLC

\* ------------------------------------------------------------------ bounds
MaxAuthz == 2
MaxPolls == 2
TicksPerSecond == 2

\* ------------------------------------------------------- program constants
HTTP_OK == 200
HTTP_CREATED == 201
HTTP_ACCEPTED == 202
HTTP_BAD_REQUEST == 400
DefaultMintime == 5
SecondsPerDay == 86400

DER_CONTENT_TYPE == "application/plix-cert"
JSON_CONTENT_TYPE == "application/json"
JSON_ERROR_CONTENT_TYPE == "application/problem+json"
NoContentType == "<no content-type header>"
NoExpectedType == "<None>"

STATUS_VALID == "valid"
STATUS_PENDING == "pending"
STATUS_INVALID == "invalid"

\* --------------------------------------------------------------- the state
VARIABLES
    debug,      \* Python's __debug__: assert statements are executed
    pc,         \* position of the running flow operation
    op,         \* the flow operation that was called
    outcome,    \* "none" while running, "ok", or the exception that escaped
    ret,        \* the value returned by the operation
    clock,      \* datetime.datetime.now(), in ticks
    authzrs,    \* poll_and_request_issuance: the list passed in
    mintime,    \* poll_and_request_issuance: the mintime passed in
    waiting,    \* poll_and_request_issuance: the heap of (when, authzr)
    updated,    \* poll_and_request_issuance: original -> latest snapshot
    cur,        \* poll_and_request_issuance: the (when, authzr) popped last
    held,       \* poll_and_request_issuance: status of the authzrs passed in
    request,    \* the HTTP request sent last, as [method, uri]
    sent,       \* authorizations of the CertificateRequest sent, if one was
    posts,      \* number of certificate-request POSTs sent
    polls,      \* number of polls (GETs) sent
    polled,     \* per authorization: the status its last poll returned
    pushed,     \* the last heappush of the loop: [authzr, header, now, when]
    arg,        \* the contact passed to register / held by the registration
    response    \* the HTTP response received last

vars == <<debug, pc, op, outcome, ret, clock, authzrs, mintime, waiting,
          updated, cur, held, request, sent, posts, polls, polled, pushed, arg, response>>

\* ------------------------------------------------------------ the resources
AuthzIds == 1..MaxAuthz

AccountKey == "account-key"
OtherKey == "other-key"

AuthzUri(a) == <<"authz", a>>
NewCertUri(a) == <<"new-cert", a>>
OtherUri == <<"elsewhere", 0>>
NoLocation == <<"no location header", 0>>
Identifier(a) == <<"dns", a>>
OtherIdentifier == <<"dns", 0>>

NoRet == [kind |-> "none"]
NoResponse == [none |-> TRUE]
NoRequest == [method |-> "none", uri |-> <<"none", 0>>]
NeverPolled == "never polled"
NoEntry == <<0, 0>>
NoPush == [authzr |-> 0, header |-> <<"absent", 0>>, now |-> 0, when |-> 0]

\* The AuthorizationResource the caller holds for authorization a.
OriginalAuthzr(a, status) ==
    [uri |-> AuthzUri(a), identifier |-> Identifier(a), key |-> AccountKey,
     status |-> status, new_cert_uri |-> NewCertUri(a)]

NoAuthzr ==
    [uri |-> <<"none", 0>>, identifier |-> <<"none", 0>>, key |-> "none",
     status |-> "none", new_cert_uri |-> <<"none", 0>>]

Range(s) == {s[i] : i \in 1..Len(s)}

\* ------------------------------------------------------------ the responses
StatusCodes == {HTTP_OK, HTTP_CREATED, HTTP_ACCEPTED, HTTP_BAD_REQUEST}
ContentTypes == {JSON_CONTENT_TYPE, JSON_ERROR_CONTENT_TYPE, DER_CONTENT_TYPE,
                 NoContentType}
\* What the body is: not JSON at all, a DER certificate (not JSON either), a
\* JSON error record, a JSON object of the resource type the operation
\* deserializes, or some other JSON object.
BodyKinds == {"notjson", "der", "error", "resource", "json"}

\* Retry-After: absent, a number of seconds, an HTTP date (here in seconds
\* since the start of the run), or text that is neither.
RetryAfterHeaders ==
    {<<"absent", 0>>, <<"int", 1>>, <<"int", SecondsPerDay + 1>>, <<"date", 0>>,
     <<"date", 3>>, <<"junk", 0>>}

\* Ticks that pass during one network round trip, or between two readings of
\* the clock.
Latencies == {0, 1}

\* requests.Response.ok
ResponseOk(r) == r.status_code < HTTP_BAD_REQUEST

\* response.json() returns an object (does not raise ValueError)
HasJson(r) == r.body \in {"error", "resource", "json"}

\* messages2.Error.from_json(jobj) succeeds
IsErrorRecord(r) == r.body = "error"

\* A classifier that accepts a success response with the wrong Content-Type
\* whenever its body is JSON.
CheckResponseJsonExcuses(r, content_type) ==
    IF r.ct = NoContentType THEN "KeyError"
    ELSE IF ~ResponseOk(r)
         THEN IF HasJson(r)
              THEN IF IsErrorRecord(r) THEN "Error" ELSE "NetworkError"
              ELSE "NetworkError"
         ELSE IF /\ content_type # NoExpectedType
                 /\ r.ct # content_type
                 /\ ~HasJson(r)
              THEN "NetworkError"
              ELSE "ok"

\* Network._check_response: "ok", or the exception it raises.
CheckResponse(r, content_type) ==
    IF r.ct = NoContentType THEN "KeyError"
    ELSE IF ~ResponseOk(r)
         THEN IF HasJson(r)
              THEN IF IsErrorRecord(r) THEN "Error" ELSE "NetworkError"
              ELSE "NetworkError"
         ELSE IF /\ content_type # NoExpectedType
                 /\ r.ct # content_type
                 /\ content_type # JSON_CONTENT_TYPE
              THEN "NetworkError"
              ELSE "ok"

\* Network._get / Network._post: the transport, then _check_response.
Exchange(r, content_type) ==
    IF r.exc THEN "NetworkError" ELSE CheckResponse(r, content_type)

\* ---------------------------------------------------------------- the clock
\* timedelta.seconds of a positive difference of d ticks: the seconds field
\* only, without the days and without the sub-second part.
TimedeltaSeconds(d) == (d % (SecondsPerDay * TicksPerSecond)) \div TicksPerSecond

\* Network._retry_after: the datetime returned, given the header and now().
\* int(retry_after) succeeds on an integer (the default is str(mintime));
\* otherwise werkzeug.parse_date gives the date, or None for anything else.
RetryAfterTime(header, mt, now) ==
    CASE header[1] = "absent" -> [none |-> FALSE, t |-> now + mt * TicksPerSecond]
      [] header[1] = "int" -> [none |-> FALSE, t |-> now + header[2] * TicksPerSecond]
      [] header[1] = "date" -> [none |-> FALSE, t |-> header[2] * TicksPerSecond]
      [] OTHER -> [none |-> TRUE, t |-> 0]

\* ----------------------------------------------------------------- the heap
\* Comparison of (when, authzr) tuples, as heapq compares its items.
ItemLt(x, y) == x[1] < y[1] \/ (x[1] = y[1] /\ x[2] < y[2])

RECURSIVE SiftDown(_, _, _, _)
\* heapq._siftdown, positions counted from 1.
SiftDown(heap, startpos, pos, newitem) ==
    IF pos > startpos /\ ItemLt(newitem, heap[pos \div 2])
    THEN SiftDown([heap EXCEPT ![pos] = heap[pos \div 2]], startpos, pos \div 2, newitem)
    ELSE [heap EXCEPT ![pos] = newitem]

RECURSIVE SiftUp(_, _, _, _)
\* heapq._siftup, positions counted from 1.
SiftUp(heap, startpos, pos, newitem) ==
    LET childpos == 2 * pos
        rightpos == childpos + 1
        c == IF rightpos <= Len(heap) /\ ~ItemLt(heap[childpos], heap[rightpos])
             THEN rightpos ELSE childpos
    IN  IF childpos <= Len(heap)
        THEN SiftUp([heap EXCEPT ![pos] = heap[c]], startpos, c, newitem)
        ELSE SiftDown([heap EXCEPT ![pos] = newitem], startpos, pos, newitem)

\* heapq.heappush
HeapPush(heap, item) == SiftDown(Append(heap, item), 1, Len(heap) + 1, item)

\* A pop that takes the last item of the list instead of the root.
HeapPopLast(heap) ==
    [item |-> heap[Len(heap)], heap |-> SubSeq(heap, 1, Len(heap) - 1)]

\* heapq.heappop: the item returned and the heap left.
HeapPop(heap) ==
    LET lastelt == heap[Len(heap)]
        rest == SubSeq(heap, 1, Len(heap) - 1)
    IN  IF rest # <<>>
        THEN [item |-> rest[1], heap |-> SiftUp([rest EXCEPT ![1] = lastelt], 1, 1, lastelt)]
        ELSE [item |-> lastelt, heap |-> rest]

\* --------------------------------------------------------------------- Init
Init ==
    /\ debug \in BOOLEAN
    /\ pc = "idle"
    /\ op = "none"
    /\ outcome = "none"
    /\ ret = NoRet
    /\ clock = 0
    /\ authzrs = <<>>
    /\ mintime = DefaultMintime
    /\ waiting = <<>>
    /\ updated = [a \in AuthzIds |-> NoAuthzr]
    /\ cur = NoEntry
    /\ held = STATUS_PENDING
    /\ request = NoRequest
    /\ sent = <<>>
    /\ posts = 0
    /\ polls = 0
    /\ polled = [a \in AuthzIds |-> NeverPolled]
    /\ pushed = NoPush
    /\ arg = "none"
    /\ response = NoResponse

\* ------------------------------------------------------ responses to a poll
\* A response that passes every check of poll(authzr) for authorization a.
GoodPollResponse(a) ==
    [exc |-> FALSE, status_code |-> HTTP_OK, ct |-> JSON_CONTENT_TYPE,
     body |-> "resource", location |-> NoLocation, links |-> {},
     key |-> AccountKey, identifier |-> Identifier(a), status |-> STATUS_VALID,
     retry_after |-> <<"absent", 0>>]

\* The responses a poll of a may get: the transport fails; the status, the
\* content type and the body vary; the key and the identifier vary; the
\* Location and the status vary; the Retry-After of a pending one varies.
PollResponses(a) ==
    {[GoodPollResponse(a) EXCEPT !.exc = TRUE]}
    \cup
    {[GoodPollResponse(a) EXCEPT !.status_code = s, !.ct = c, !.body = b] :
        s \in {HTTP_OK, HTTP_BAD_REQUEST}, c \in ContentTypes, b \in BodyKinds}
    \cup
    {[GoodPollResponse(a) EXCEPT !.key = k, !.identifier = i] :
        k \in {AccountKey, OtherKey}, i \in {Identifier(a), OtherIdentifier}}
    \cup
    {[GoodPollResponse(a) EXCEPT !.location = l, !.status = st] :
        l \in {NoLocation, AuthzUri(a), OtherUri},
        st \in {STATUS_PENDING, STATUS_VALID, STATUS_INVALID}}
    \cup
    {[GoodPollResponse(a) EXCEPT !.status = STATUS_PENDING, !.retry_after = h] :
        h \in RetryAfterHeaders}

\* response.headers.get('location', uri)
LocationOr(r, uri) == IF r.location = NoLocation THEN uri ELSE r.location

\* A reconciler that compares the key and not the identifier.
AuthzrMatchesKeyOnly(authzr, identifier) == authzr.key = AccountKey

\* The authorization carries the client's key and the expected identifier.
AuthzrMatches(authzr, identifier) ==
    authzr.key = AccountKey /\ authzr.identifier = identifier

\* Network._authzr_from_response: [fault |-> "ok", authzr |-> the resource], or
\* the exception raised.  new_cert_uri = NoLocation stands for None.
AuthzrFromResponse(r, identifier, uri, new_cert_uri) ==
    LET next == IF new_cert_uri = NoLocation THEN <<"next", 0>> ELSE new_cert_uri
        authzr == [uri |-> LocationOr(r, uri), identifier |-> r.identifier,
                   key |-> r.key, status |-> r.status, new_cert_uri |-> next]
    IN  IF new_cert_uri = NoLocation /\ "next" \notin r.links
        THEN [fault |-> "NetworkError", authzr |-> NoAuthzr]
        ELSE IF ~HasJson(r) THEN [fault |-> "ValueError", authzr |-> NoAuthzr]
        ELSE IF r.body # "resource"
             THEN [fault |-> "DeserializationError", authzr |-> NoAuthzr]
        ELSE IF ~AuthzrMatches(authzr, identifier)
             THEN [fault |-> "UnexpectedUpdate", authzr |-> NoAuthzr]
        ELSE [fault |-> "ok", authzr |-> authzr]

\* Network.poll: GET authzr.uri, then _authzr_from_response with the polled
\* resource's identifier, uri and new_cert_uri.
Poll(authzr, r) ==
    LET e == Exchange(r, JSON_CONTENT_TYPE)
    IN  IF e # "ok" THEN [fault |-> e, authzr |-> NoAuthzr]
        ELSE AuthzrFromResponse(r, authzr.identifier, authzr.uri, authzr.new_cert_uri)

\* ------------------------------------------------ poll_and_request_issuance
\* The lists of authorizations passed in: up to MaxAuthz distinct
\* authorizations, in any order of the objects.
InputLists ==
    {s \in UNION {[1..n -> 1..n] : n \in 0..MaxAuthz} : Cardinality(Range(s)) = Len(s)}

RECURSIVE SumTo(_, _)
SumTo(adv, i) == IF i <= 1 THEN 0 ELSE adv[i] + SumTo(adv, i - 1)

\* updated_authzr.uri == authzr compares the snapshot's URI with the original
\* AuthorizationResource itself: a URI is never equal to a resource.
UriEqualsResource(uri, authzr) == FALSE

\* A loop that polls the latest snapshot instead of the original resource.
PolledResourceLatest(a) == updated[a]

\* A loop that pushes back only authorizations that are still pending.
NeedsRepollPendingOnly(authzr) == authzr.status = STATUS_PENDING

\* self.poll(authzr): the resource polled for queue entry a is the original.
PolledResource(a) == OriginalAuthzr(a, held)

\* updated_authzr.body.status != messages2.STATUS_VALID
NeedsRepoll(authzr) == authzr.status # STATUS_VALID

\* A queue that leaves out the authorizations passed in as valid.
InitialWaitingNotYetValid(list, st, adv) ==
    IF st = STATUS_VALID THEN <<>>
    ELSE [i \in 1..Len(list) |-> <<clock + SumTo(adv, i), list[i]>>]

\* waiting = [(datetime.datetime.now(), authzr) for authzr in authzrs]: every
\* authorization of the list, whatever its status st, with one now() each.
InitialWaiting(list, st, adv) ==
    [i \in 1..Len(list) |-> <<clock + SumTo(adv, i), list[i]>>]

\* An exception escapes the operation.
Abort(fault) ==
    /\ pc' = "done"
    /\ outcome' = fault
    /\ ret' = NoRet

\* The call, up to the loop: waiting holds (now(), authzr) for every authzr in
\* list order (one now() per entry, adv ticks apart), updated maps each to itself.
CallPollAndRequestIssuance(list, mt, st, adv) ==
    /\ pc = "idle"
    /\ pc' = "loop"
    /\ op' = "poll_and_request_issuance"
    /\ authzrs' = list
    /\ mintime' = mt
    /\ held' = st
    /\ waiting' = InitialWaiting(list, st, adv)
    /\ clock' = clock + SumTo(adv, Len(list))
    /\ updated' = [a \in AuthzIds |->
                      IF a \in Range(list) THEN OriginalAuthzr(a, st) ELSE NoAuthzr]
    /\ UNCHANGED <<debug, sent, outcome, ret, cur, request, posts, polls, polled, pushed,
                   arg, response>>

\* One iteration, up to the GET of poll(): heappop, sleep for
\* (when - now).seconds if when > now, send the GET to authzr.uri.
LoopPop ==
    /\ pc = "loop"
    /\ waiting # <<>>
    /\ polls < MaxPolls
    /\ LET popped == HeapPop(waiting)
           when == popped.item[1]
           authzr == PolledResource(popped.item[2])
           seconds == IF when > clock THEN TimedeltaSeconds(when - clock) ELSE 0
       IN  /\ waiting' = popped.heap
           /\ cur' = popped.item
           /\ clock' = clock + seconds * TicksPerSecond
           /\ request' = [method |-> "GET", uri |-> authzr.uri]
    /\ polls' = polls + 1
    /\ pc' = "polling"
    /\ UNCHANGED <<debug, sent, op, outcome, ret, authzrs, mintime, updated, held, posts,
                   polled, pushed, arg, response>>

\* The rest of the iteration: the response r arrives d ticks later, poll()
\* reconciles it, updated is set, the assertion is evaluated, and an
\* authorization that is not valid is pushed back with _retry_after's time.
\* The clock is read again only where the loop goes on (lines 271 and 334), so
\* it is left as it is when an exception ends the call.
PollReturn(r, d) ==
    /\ pc = "polling"
    /\ LET a == cur[2]
           authzr == PolledResource(a)
           res == Poll(authzr, r)
           ra == RetryAfterTime(r.retry_after, mintime, clock + d)
       IN  IF res.fault # "ok"
           THEN /\ Abort(res.fault)
                /\ UNCHANGED <<clock, updated, polled, waiting, pushed>>
           ELSE /\ updated' = [updated EXCEPT ![a] = res.authzr]
                /\ polled' = [polled EXCEPT ![a] = res.authzr.status]
                /\ IF debug /\ ~UriEqualsResource(res.authzr.uri, authzr)
                   THEN /\ Abort("AssertionError")
                        /\ UNCHANGED <<clock, waiting, pushed>>
                   ELSE IF NeedsRepoll(res.authzr)
                        THEN IF ra.none
                             THEN /\ Abort("TypeError")
                                  /\ clock' = clock + d
                                  /\ UNCHANGED <<waiting, pushed>>
                             ELSE /\ clock' = clock + d
                                  /\ waiting' = HeapPush(waiting, <<ra.t, a>>)
                                  /\ pushed' = [authzr |-> a, header |-> r.retry_after,
                                                now |-> clock + d, when |-> ra.t]
                                  /\ pc' = "loop"
                                  /\ UNCHANGED <<outcome, ret>>
                        ELSE /\ clock' = clock + d
                             /\ pc' = "loop"
                             /\ UNCHANGED <<outcome, ret, waiting, pushed>>
    /\ response' = r
    /\ UNCHANGED <<debug, sent, op, authzrs, mintime, cur, held, request, posts, polls, arg>>

\* A certificate resource that holds the latest snapshots.
IssuedAuthzrsLatest(list) == [i \in 1..Len(list) |-> updated[list[i]]]

\* CertificateRequest(authorizations=tuple(authzr.uri for authzr in authzrs))
RequestedAuthorizations(list) ==
    [i \in 1..Len(list) |-> OriginalAuthzr(list[i], held).uri]

\* CertificateResource(authzrs=authzrs): the list request_issuance was given,
\* which poll_and_request_issuance passes on as it received it.
IssuedAuthzrs(list) == [i \in 1..Len(list) |-> OriginalAuthzr(list[i], held)]

\* After the loop: request_issuance(csr, authzrs) up to its POST to
\* authzrs[0].new_cert_uri (an IndexError on the empty list).
RequestIssuance ==
    /\ pc = "loop"
    /\ waiting = <<>>
    /\ IF authzrs = <<>>
       THEN /\ Abort("IndexError")
            /\ UNCHANGED <<request, sent, posts>>
       ELSE /\ request' = [method |-> "POST",
                           uri |-> OriginalAuthzr(authzrs[1], held).new_cert_uri]
            /\ sent' = RequestedAuthorizations(authzrs)
            /\ posts' = posts + 1
            /\ pc' = "issuing"
            /\ UNCHANGED <<outcome, ret>>
    /\ UNCHANGED <<debug, op, clock, authzrs, mintime, waiting, updated, cur, held,
                   polls, polled, pushed, arg, response>>

IssuanceResponses ==
    [exc : BOOLEAN, status_code : StatusCodes, ct : ContentTypes, body : BodyKinds,
     links : {{}, {"up"}}]

\* The rest of request_issuance and the return of poll_and_request_issuance:
\* the CertificateResource of the original authzrs, and the updated snapshots.
IssuanceReturn(r) ==
    /\ pc = "issuing"
    /\ LET e == Exchange(r, DER_CONTENT_TYPE)
       IN  IF e # "ok" THEN Abort(e)
           ELSE IF r.body # "der" THEN Abort("X509Error")
           ELSE IF "up" \notin r.links THEN Abort("KeyError")
           ELSE /\ pc' = "done"
                /\ outcome' = "ok"
                /\ ret' = [kind |-> "issued",
                           authzrs |-> IssuedAuthzrs(authzrs),
                           updated |-> [i \in 1..Len(authzrs) |-> updated[authzrs[i]]]]
    /\ response' = r
    /\ UNCHANGED <<debug, sent, op, clock, authzrs, mintime, waiting, updated, cur, held,
                   request, posts, polls, polled, pushed, arg>>

\* ------------------------------------------------- the one-call operations
NewRegUri == <<"new-reg", 0>>
RegUri == <<"reg", 0>>
NewAuthzUri == <<"new-authz", 0>>
ChallengeUri == <<"challenge", 0>>
CertUri == <<"cert", 0>>
CertChainUri == <<"cert-chain", 0>>
NoUri == <<"none", 0>>
\* response.links[rel]['url']
LinkUrl(rel) == <<rel, 0>>

Contacts == {"()", "(mailto:admin@example.com)"}

\* The resources the caller holds when it calls an operation on one.
HeldRegr(contact) ==
    [body |-> [key |-> AccountKey, contact |-> contact], uri |-> RegUri,
     new_authz_uri |-> NewAuthzUri, terms_of_service |-> NoUri]
HeldChallr == [body |-> "challenge", uri |-> ChallengeUri]
HeldCertr ==
    [body |-> "cert", uri |-> CertUri, cert_chain_uri |-> CertChainUri,
     authzrs |-> <<OriginalAuthzr(1, STATUS_VALID)>>]

\* The responses to the one-call operations: one family varies what
\* _check_response reads, the other what the reconciliation reads.
Responses ==
    [exc : BOOLEAN, status_code : StatusCodes, ct : ContentTypes, body : BodyKinds,
     location : {NoLocation}, links : {{"next", "up"}}, key : {AccountKey},
     contact : {"()"}, identifier : {Identifier(1)}, status : {STATUS_PENDING}]
    \cup
    [exc : {FALSE}, status_code : {HTTP_OK, HTTP_CREATED},
     ct : {JSON_CONTENT_TYPE, DER_CONTENT_TYPE}, body : {"resource", "der"},
     location : {NoLocation, RegUri, ChallengeUri, CertUri, OtherUri},
     links : SUBSET {"next", "up", "terms-of-service"},
     key : {AccountKey, OtherKey}, contact : Contacts,
     identifier : {Identifier(1), OtherIdentifier}, status : {STATUS_PENDING}]

\* The operation returns value.
Return(value) ==
    /\ pc' = "done"
    /\ outcome' = "ok"
    /\ ret' = value

\* The operation sends one request and ends, with res = [fault, value].
OneCall(name, argument, method, uri, r, res) ==
    /\ pc = "idle"
    /\ op' = name
    /\ arg' = argument
    /\ request' = [method |-> method, uri |-> uri]
    /\ response' = r
    /\ IF res.fault = "ok" THEN Return(res.value) ELSE Abort(res.fault)
    /\ UNCHANGED <<debug, sent, clock, authzrs, mintime, waiting, updated, cur, held, posts,
                   polls, polled, pushed>>

Raise(fault) == [fault |-> fault, value |-> NoRet]

\* A reconciler that does without the "next" link when there is none.
RegrFromResponseLinkOptional(r, uri, new_authz_uri) ==
    IF ~HasJson(r) THEN Raise("ValueError")
    ELSE IF r.body # "resource" THEN Raise("DeserializationError")
    ELSE [fault |-> "ok",
          value |-> [kind |-> "regr",
                     body |-> [key |-> r.key, contact |-> r.contact],
                     uri |-> IF r.location = NoLocation THEN uri ELSE r.location,
                     new_authz_uri |-> new_authz_uri,
                     terms_of_service |-> NoUri]]

\* Network._regr_from_response; uri and new_authz_uri are NoUri for None.
RegrFromResponse(r, uri, new_authz_uri) ==
    IF "terms-of-service" \in r.links /\ "next" \notin r.links THEN Raise("KeyError")
    ELSE IF new_authz_uri = NoUri /\ "next" \notin r.links THEN Raise("NetworkError")
    ELSE IF ~HasJson(r) THEN Raise("ValueError")
    ELSE IF r.body # "resource" THEN Raise("DeserializationError")
    ELSE [fault |-> "ok",
          value |-> [kind |-> "regr",
                     body |-> [key |-> r.key, contact |-> r.contact],
                     uri |-> IF r.location = NoLocation THEN uri ELSE r.location,
                     new_authz_uri |-> IF new_authz_uri = NoUri THEN LinkUrl("next")
                                       ELSE new_authz_uri,
                     terms_of_service |-> IF "terms-of-service" \in r.links
                                          THEN LinkUrl("next") ELSE NoUri]]

\* A register that compares the key only.
RegrMatchesKeyOnly(regr, contact) == regr.body.key = AccountKey

\* regr.body.key != self.key.public() or regr.body.contact != contact, negated
RegrMatches(regr, contact) ==
    regr.body.key = AccountKey /\ regr.body.contact = contact

\* Network.register
RegisterResult(contact, r, dbg) ==
    LET e == Exchange(r, JSON_CONTENT_TYPE)
        regr == RegrFromResponse(r, NoUri, NoUri)
    IN  IF e # "ok" THEN Raise(e)
        ELSE IF dbg /\ r.status_code # HTTP_CREATED THEN Raise("AssertionError")
        ELSE IF regr.fault # "ok" THEN regr
        ELSE IF ~RegrMatches(regr.value, contact) THEN Raise("UnexpectedUpdate")
        ELSE regr

Register(contact, r) ==
    /\ OneCall("register", contact, "POST", NewRegUri, r, RegisterResult(contact, r, debug))

\* Network.update_registration
UpdateRegistrationResult(regr, r) ==
    LET e == Exchange(r, JSON_CONTENT_TYPE)
    IN  IF e # "ok" THEN Raise(e)
        ELSE RegrFromResponse(r, regr.uri, regr.new_authz_uri)

UpdateRegistration(contact, r) ==
    /\ OneCall("update_registration", contact, "POST", HeldRegr(contact).uri, r,
               UpdateRegistrationResult(HeldRegr(contact), r))

\* Network.request_challenges
RequestChallengesResult(identifier, r, dbg) ==
    LET e == Exchange(r, JSON_CONTENT_TYPE)
        res == AuthzrFromResponse(r, identifier, NoLocation, NoLocation)
    IN  IF e # "ok" THEN Raise(e)
        ELSE IF dbg /\ r.status_code # HTTP_CREATED THEN Raise("AssertionError")
        ELSE IF res.fault # "ok" THEN Raise(res.fault)
        ELSE [fault |-> "ok", value |-> [kind |-> "authzr", authzr |-> res.authzr]]

RequestChallenges(contact, r) ==
    /\ OneCall("request_challenges", contact, "POST", HeldRegr(contact).new_authz_uri, r,
               RequestChallengesResult(Identifier(1), r, debug))

\* answer_challenge without the comparison of the Location header.
AnswerChallengeUnchecked(challr, r) ==
    LET e == Exchange(r, JSON_CONTENT_TYPE)
    IN  IF e # "ok" THEN Raise(e)
        ELSE IF r.location = NoLocation THEN Raise("KeyError")
        ELSE IF ~HasJson(r) THEN Raise("ValueError")
        ELSE IF r.body # "resource" THEN Raise("DeserializationError")
        ELSE [fault |-> "ok",
              value |-> [kind |-> "challr", body |-> "updated challenge",
                         uri |-> challr.uri]]

\* Network.answer_challenge
AnswerChallengeResult(challr, r) ==
    LET e == Exchange(r, JSON_CONTENT_TYPE)
    IN  IF e # "ok" THEN Raise(e)
        ELSE IF r.location = NoLocation THEN Raise("KeyError")
        ELSE IF r.location # challr.uri THEN Raise("UnexpectedUpdate")
        ELSE IF ~HasJson(r) THEN Raise("ValueError")
        ELSE IF r.body # "resource" THEN Raise("DeserializationError")
        ELSE [fault |-> "ok",
              value |-> [kind |-> "challr", body |-> "updated challenge",
                         uri |-> challr.uri]]

AnswerChallenge(r) ==
    /\ OneCall("answer_challenge", "none", "POST", HeldChallr.uri, r,
               AnswerChallengeResult(HeldChallr, r))

\* Network.poll, called on its own.
PollResult(authzr, r) ==
    LET res == Poll(authzr, r)
    IN  IF res.fault # "ok" THEN Raise(res.fault)
        ELSE [fault |-> "ok", value |-> [kind |-> "authzr", authzr |-> res.authzr]]

PollOnce(st, r) ==
    /\ OneCall("poll", st, "GET", OriginalAuthzr(1, st).uri, r,
               PollResult(OriginalAuthzr(1, st), r))

\* Network._get_cert
GetCert(r) ==
    LET e == Exchange(r, DER_CONTENT_TYPE)
    IN  IF e # "ok" THEN Raise(e)
        ELSE IF r.body # "der" THEN Raise("X509Error")
        ELSE [fault |-> "ok", value |-> [kind |-> "cert", body |-> "fetched cert"]]

\* Network.check_cert
CheckCertResult(certr, r) ==
    LET got == GetCert(r)
    IN  IF got.fault # "ok" THEN got
        ELSE IF r.location = NoLocation THEN Raise("KeyError")
        ELSE IF ~(r.location # certr.uri) THEN Raise("UnexpectedUpdate")
        ELSE [fault |-> "ok",
              value |-> [kind |-> "certr", body |-> got.value.body, uri |-> certr.uri,
                         cert_chain_uri |-> certr.cert_chain_uri,
                         authzrs |-> certr.authzrs]]

CheckCert(r) ==
    /\ OneCall("check_cert", "none", "GET", HeldCertr.uri, r, CheckCertResult(HeldCertr, r))

\* Network.refresh
Refresh(r) ==
    /\ OneCall("refresh", "none", "GET", HeldCertr.uri, r, CheckCertResult(HeldCertr, r))

\* Network.fetch_chain
FetchChain(r) ==
    /\ OneCall("fetch_chain", "none", "GET", HeldCertr.cert_chain_uri, r, GetCert(r))

\* revoke without the test of the status code.
RevokeAnySuccess(r) ==
    LET e == Exchange(r, JSON_CONTENT_TYPE)
    IN  IF e # "ok" THEN Raise(e)
        ELSE [fault |-> "ok", value |-> [kind |-> "None"]]

\* Network.revoke
RevokeResult(r) ==
    LET e == Exchange(r, JSON_CONTENT_TYPE)
    IN  IF e # "ok" THEN Raise(e)
        ELSE IF r.status_code # HTTP_OK THEN Raise("NetworkError")
        ELSE [fault |-> "ok", value |-> [kind |-> "None"]]

Revoke(r) ==
    /\ OneCall("revoke", "none", "POST", HeldCertr.uri, r, RevokeResult(r))

Mintimes == {DefaultMintime}

\* The steps, with the inputs each may get.
PollAndRequestIssuanceCall ==
    /\ pc = "idle"
    /\ \E list \in InputLists, mt \in Mintimes, st \in {STATUS_PENDING, STATUS_VALID} :
          \E adv \in [2..Len(list) -> Latencies] :
             CallPollAndRequestIssuance(list, mt, st, adv)

PollReturnStep ==
    /\ pc = "polling"
    /\ \E r \in PollResponses(cur[2]), d \in Latencies : PollReturn(r, d)

IssuanceReturnStep ==
    /\ pc = "issuing"
    /\ \E r \in IssuanceResponses : IssuanceReturn(r)

RegisterCall ==
    /\ pc = "idle"
    /\ \E c \in Contacts, r \in Responses : Register(c, r)

UpdateRegistrationCall ==
    /\ pc = "idle"
    /\ \E c \in Contacts, r \in Responses : UpdateRegistration(c, r)

RequestChallengesCall ==
    /\ pc = "idle"
    /\ \E c \in Contacts, r \in Responses : RequestChallenges(c, r)

AnswerChallengeCall ==
    /\ pc = "idle"
    /\ \E r \in Responses : AnswerChallenge(r)

PollCall ==
    /\ pc = "idle"
    /\ \E st \in {STATUS_PENDING, STATUS_VALID}, r \in Responses : PollOnce(st, r)

CheckCertCall ==
    /\ pc = "idle"
    /\ \E r \in Responses : CheckCert(r)

RefreshCall ==
    /\ pc = "idle"
    /\ \E r \in Responses : Refresh(r)

FetchChainCall ==
    /\ pc = "idle"
    /\ \E r \in Responses : FetchChain(r)

RevokeCall ==
    /\ pc = "idle"
    /\ \E r \in Responses : Revoke(r)

Next ==
    \/ PollAndRequestIssuanceCall
    \/ LoopPop
    \/ PollReturnStep
    \/ RequestIssuance
    \/ IssuanceReturnStep
    \/ RegisterCall
    \/ UpdateRegistrationCall
    \/ RequestChallengesCall
    \/ AnswerChallengeCall
    \/ PollCall
    \/ CheckCertCall
    \/ RefreshCall
    \/ FetchChainCall
    \/ RevokeCall

Spec == Init /\ [][Next]_vars

\* ------------------------------------------------------------------ claims
InFlow == op = "poll_and_request_issuance"
Tracked == Range(authzrs)

\* The last response is one poll() accepted for the authorization popped last.
PollAccepted ==
    /\ response # NoResponse
    /\ Poll(PolledResource(cur[2]), response).fault = "ok"

\* C1: the certificate-request POST is sent only when the most recent poll of
\* every authorization of the list returned the status valid.
IssuanceOnlyWhenAllValid ==
    posts > 0 => \A a \in Tracked : polled[a] = STATUS_VALID

\* C1 witness: the POST was sent after an authorization was first pushed back.
IssuanceAfterRepoll == posts > 0 /\ pushed.authzr # 0

\* C2: once every authorization's poll returned a well-formed valid response,
\* the flow does not abort before the certificate request, which is sent once,
\* to the first authorization's new_cert_uri.
AllValidProceedsToIssuance ==
    /\ posts <= 1
    /\ pc = "issuing" =>
          request = [method |-> "POST", uri |-> NewCertUri(authzrs[1])]
    /\ ~ /\ InFlow /\ pc = "done" /\ posts = 0 /\ authzrs # <<>>
         /\ PollAccepted /\ response.status = STATUS_VALID
         /\ \A a \in Tracked : polled[a] = STATUS_VALID

\* C3: no poll is sent before the due time of the entry popped for it.
PollNotBeforeDue == pc = "polling" => clock >= cur[1]

\* C4: every poll is a GET to the URI of the original resource of an
\* authorization of the list, whatever URI its latest snapshot carries.
PollsOriginalUri ==
    pc = "polling" =>
        /\ cur[2] \in Tracked
        /\ request = [method |-> "GET", uri |-> AuthzUri(cur[2])]

\* C4 witness: an authorization is polled again after a snapshot of it carried
\* another URI.
PolledAgainAfterRelocation == pc = "polling" /\ updated[cur[2]].uri = OtherUri

\* C5: a poll response whose Location differs from the polled URI makes poll
\* fail, and no snapshot is recorded from it.
RelocatedPollRejected ==
    /\ \A a \in Tracked : updated[a].uri = AuthzUri(a)
    /\ (op = "poll" /\ pc = "done" /\ response.location \notin {NoLocation, AuthzUri(1)})
          => outcome # "ok"

\* C6: a poll is sent for an entry whose due time is minimal among the entries
\* in the queue, and the authorization being polled has no other entry in the
\* queue: it is polled again only after it was pushed back.
EarliestDueFirst ==
    pc = "polling" =>
        \A i \in 1..Len(waiting) : cur[1] <= waiting[i][1] /\ waiting[i][2] # cur[2]

\* C6 witness: a pushed-back authorization is popped again ahead of an entry
\* that is still waiting.
RepolledAheadOfWaiting ==
    pc = "polling" /\ waiting # <<>> /\ pushed.authzr = cur[2]

\* The due time C7 states for a Retry-After header read at time now.
ClaimedDue(header, now, mt) ==
    CASE header[1] = "int" -> now + header[2] * TicksPerSecond
      [] header[1] = "date" -> header[2] * TicksPerSecond
      [] OTHER -> now + mt * TicksPerSecond

\* C7: when a poll returns an authorization that is not valid, it is put back
\* in the queue with the due time its Retry-After gives (seconds from now, a
\* date, or mintime from now), and no certificate request is sent.
RepollAtRetryAfter ==
    [][(/\ pc = "polling" /\ pc' # "polling"
        /\ PollAccepted'
        /\ response'.status # STATUS_VALID
        /\ response'.retry_after[1] # "junk")
       => (/\ pc' = "loop"
           /\ posts' = posts
           /\ \E i \in 1..Len(waiting') :
                 waiting'[i] = <<ClaimedDue(response'.retry_after, clock', mintime),
                                 cur[2]>>)]_vars

\* C8: an authorization whose latest poll returned a terminal status, valid or
\* invalid, is not polled again.
NoPollAfterTerminal ==
    pc = "polling" => polled[cur[2]] \notin {STATUS_VALID, STATUS_INVALID}

\* C9: an operation ends normally or with NetworkError, messages2.Error or
\* UnexpectedUpdate, and with nothing else.
OnlyThreeFaultKinds ==
    outcome \in {"none", "ok", "NetworkError", "Error", "UnexpectedUpdate"}

\* The response to register passed _check_response with the status created.
RegisterCreated ==
    /\ op = "register" /\ pc = "done"
    /\ Exchange(response, JSON_CONTENT_TYPE) = "ok"
    /\ response.status_code = HTTP_CREATED

\* register returned a resource with the account key and the contact sent if
\* the response carried them, and raised UnexpectedUpdate if not.
RegisterDecidedByMatch ==
    IF response.key = AccountKey /\ response.contact = arg
    THEN /\ outcome = "ok"
         /\ ret.kind = "regr"
         /\ ret.body = [key |-> AccountKey, contact |-> arg]
    ELSE outcome = "UnexpectedUpdate"

\* C10 as stated: for every created response that passes classification,
\* register returns iff key and contact match, and raises UnexpectedUpdate
\* otherwise.
RegisterIffMatch == RegisterCreated => RegisterDecidedByMatch

\* C10 amended: the same, for created responses that carry a "next" link and
\* whose body deserializes as a Registration.
RegisterIffMatchWhenReconcilable ==
    (RegisterCreated /\ "next" \in response.links /\ response.body = "resource")
        => RegisterDecidedByMatch

\* C10 witness: register returned a resource with a non-empty contact list.
RegisterReturned ==
    /\ RegisterCreated /\ "next" \in response.links /\ response.body = "resource"
    /\ outcome = "ok" /\ arg # "()"

\* The response to answer_challenge passed _check_response and declares a
\* Location.
ChallengeAnswered ==
    /\ op = "answer_challenge" /\ pc = "done"
    /\ Exchange(response, JSON_CONTENT_TYPE) = "ok"
    /\ response.location # NoLocation

\* answer_challenge returned the challenge resource with its original URI and
\* the body of the response.
ChallengeUpdated ==
    /\ outcome = "ok"
    /\ ret = [kind |-> "challr", body |-> "updated challenge", uri |-> ChallengeUri]

\* A Location other than the challenge's URI raised UnexpectedUpdate and
\* nothing was returned.
ChallengeRelocatedRejected ==
    (ChallengeAnswered /\ response.location # ChallengeUri)
        => (outcome = "UnexpectedUpdate" /\ ret = NoRet)

\* C11 as stated: when the POST passes classification, a Location other than
\* the challenge's URI raises UnexpectedUpdate and returns nothing, and an
\* equal Location returns the challenge resource with the original URI and the
\* body of the response.
AnswerChallengeByLocation ==
    /\ ChallengeRelocatedRejected
    /\ (ChallengeAnswered /\ response.location = ChallengeUri) => ChallengeUpdated

\* C11 amended: the same, the second half for responses whose body
\* deserializes as a Challenge; with any other body nothing is returned.
AnswerChallengeByLocationWhenDeserializable ==
    /\ ChallengeRelocatedRejected
    /\ (ChallengeAnswered /\ response.location = ChallengeUri)
          => IF response.body = "resource" THEN ChallengeUpdated
             ELSE outcome # "ok" /\ ret = NoRet

\* C11 witness: a deserializable answer that declares another Location was
\* rejected.
ChallengeRelocated ==
    /\ ChallengeAnswered /\ response.location = OtherUri
    /\ response.body = "resource" /\ outcome = "UnexpectedUpdate"

\* The certificate GET of check_cert or refresh passed _check_response, its
\* body loaded as a certificate and the response declares a Location.
CertFetched ==
    /\ op \in {"check_cert", "refresh"} /\ pc = "done"
    /\ GetCert(response).fault = "ok"
    /\ response.location # NoLocation

\* C12: check_cert and refresh raise UnexpectedUpdate when the Location of the
\* certificate GET differs from the stored certificate URI, and otherwise
\* return the certificate resource updated with the fetched body.
CheckCertByLocation ==
    CertFetched =>
        IF response.location # CertUri
        THEN outcome = "UnexpectedUpdate" /\ ret = NoRet
        ELSE /\ outcome = "ok"
             /\ ret.kind = "certr" /\ ret.uri = CertUri /\ ret.body = "fetched cert"

\* revoke ended, and its POST was answered with a response that declares a
\* Content-Type.
RevokeAnswered ==
    /\ op = "revoke" /\ pc = "done"
    /\ ~response.exc /\ response.ct # NoContentType

Issued == InFlow /\ pc = "done" /\ outcome = "ok"

\* C14: when the flow succeeds, the certificate request lists the URIs of the
\* authorizations passed in, in the order passed in, and the certificate
\* resource returned holds that list of originals, not the latest snapshots.
IssuedFromOriginals ==
    Issued =>
        /\ Len(sent) = Len(authzrs)
        /\ \A i \in 1..Len(authzrs) : sent[i] = AuthzUri(authzrs[i])
        /\ Len(ret.authzrs) = Len(authzrs)
        /\ \A i \in 1..Len(authzrs) :
              ret.authzrs[i] = OriginalAuthzr(authzrs[i], held)

\* C14 witness: the flow succeeded for two authorizations passed in as (2, 1),
\* pending when passed in, whose latest snapshots differ from the originals.
IssuedWithNewerSnapshots ==
    /\ Issued /\ authzrs = <<2, 1>> /\ held = STATUS_PENDING
    /\ \A i \in 1..2 : ret.updated[i] # ret.authzrs[i]

\* r passes _check_response and its body is an authorization whose key is not
\* the client's or whose identifier is not the one of authorization a.
MismatchedPoll(r, a) ==
    /\ r # NoResponse
    /\ Exchange(r, JSON_CONTENT_TYPE) = "ok"
    /\ r.body = "resource"
    /\ (r.key # AccountKey \/ r.identifier # Identifier(a))

\* C15: a poll response with another key or another identifier makes poll
\* raise UnexpectedUpdate; in poll_and_request_issuance the call then ends with
\* the recorded snapshots as they were, no certificate request sent, and
\* nothing is done after an operation has ended.
MismatchedPollAborts ==
    /\ []((op = "poll" /\ pc = "done" /\ MismatchedPoll(response, 1))
             => (outcome = "UnexpectedUpdate" /\ ret = NoRet))
    /\ [][(InFlow /\ pc = "polling" /\ MismatchedPoll(response', cur[2]))
             => /\ pc' = "done" /\ outcome' = "UnexpectedUpdate" /\ ret' = NoRet
                /\ updated' = updated /\ polls' = polls
                /\ posts' = 0 /\ sent' = <<>>]_vars
    /\ [][pc # "done"]_vars

\* C15 witness: the flow ended on a mismatched response to the second poll of
\* an authorization whose first poll had been recorded.
AbortedOnMismatchedRepoll ==
    /\ InFlow /\ pc = "done" /\ outcome = "UnexpectedUpdate"
    /\ MismatchedPoll(response, cur[2])
    /\ polled[cur[2]] = STATUS_PENDING /\ updated[cur[2]].status = STATUS_PENDING
    /\ held = STATUS_VALID

\* An operation ended on a response with a failure status.
EndedOnFailureStatus ==
    /\ pc = "done" /\ response # NoResponse
    /\ ~response.exc /\ ~ResponseOk(response)

\* C16: a response with a failure status never returns normally: it raises
\* messages2.Error when its body is JSON and an error record, whatever the
\* Content-Type, and NetworkError when the body is JSON of another shape or is
\* not JSON.
FailureStatusRaisesByTier ==
    EndedOnFailureStatus =>
        IF HasJson(response) /\ IsErrorRecord(response)
        THEN outcome = "Error"
        ELSE outcome = "NetworkError"

\* The operations that raise NetworkError only from _get or _post, by the
\* content type they expect.
ExpectsDer == op \in {"check_cert", "refresh", "fetch_chain"}
ExpectsJson == op \in {"answer_challenge", "poll", "update_registration"}

\* Such an operation ended on a success response whose Content-Type is not the
\* expected one.
EndedOnWrongContentType ==
    /\ pc = "done" /\ (ExpectsDer \/ ExpectsJson)
    /\ ~response.exc /\ ResponseOk(response)
    /\ response.ct # NoContentType
    /\ response.ct # (IF ExpectsDer THEN DER_CONTENT_TYPE ELSE JSON_CONTENT_TYPE)

ReconciledWithoutNext ==
    /\ op \in {"register", "request_challenges"} /\ pc = "done"
    /\ Exchange(response, JSON_CONTENT_TYPE) = "ok"
    /\ (debug => response.status_code = HTTP_CREATED)
    /\ "next" \notin response.links

\* update_registration or poll reached its reconciler, which is given the next
\* URI of the resource held, with a response that has no "next" link and is
\* otherwise what the reconciler accepts.
ReconciledWithSuppliedNext ==
    /\ op \in {"update_registration", "poll"} /\ pc = "done"
    /\ Exchange(response, JSON_CONTENT_TYPE) = "ok"
    /\ "next" \notin response.links
    /\ response.body = "resource"
    /\ (op = "poll" =>
            response.key = AccountKey /\ response.identifier = Identifier(1))

\* The response has a "terms-of-service" link, which _regr_from_response
\* resolves through the "next" link.
TermsLinkRead ==
    /\ op \in {"register", "update_registration"}
    /\ "terms-of-service" \in response.links

\* C18 as stated: without a caller-supplied next URI a missing "next" link
\* raises messages2.Error and no resource is returned; with a caller-supplied
\* next URI a missing "next" link raises nothing.
MissingNextIsProtocolError ==
    /\ ReconciledWithoutNext => (outcome = "Error" /\ ret = NoRet)
    /\ ReconciledWithSuppliedNext => outcome = "ok"

\* C18 amended: in the first case the fault is NetworkError; in both cases a
\* registration response with a "terms-of-service" link and no "next" link
\* fails on the lookup of that link instead.
MissingNextIsNetworkError ==
    /\ ReconciledWithoutNext =>
          /\ outcome = (IF TermsLinkRead THEN "KeyError" ELSE "NetworkError")
          /\ ret = NoRet
    /\ ReconciledWithSuppliedNext =>
          outcome = (IF TermsLinkRead THEN "KeyError" ELSE "ok")

\* C18 witness: register was answered 201 with a registration and no link.
RegisterWithoutNextRefused ==
    /\ ReconciledWithoutNext /\ op = "register"
    /\ response.status_code = HTTP_CREATED /\ response.body = "resource"
    /\ response.links = {} /\ outcome = "NetworkError"

\* C19: a registration resource returned by register or update_registration
\* has as terms_of_service the URL of the "terms-of-service" link of the
\* response, or None when there is no such link, never the URL of the "next"
\* link; and update_registration does not fail on a response with a
\* "terms-of-service" link and no "next" link.
TermsOfServiceFromItsLink ==
    /\ (op \in {"register", "update_registration"} /\ pc = "done" /\ outcome = "ok")
          => /\ ret.terms_of_service =
                   (IF "terms-of-service" \in response.links
                    THEN LinkUrl("terms-of-service") ELSE NoUri)
             /\ ret.terms_of_service # LinkUrl("next")
    /\ (ReconciledWithSuppliedNext /\ op = "update_registration"
            /\ "terms-of-service" \in response.links)
          => outcome = "ok"

\* The authorizations that have an entry in the queue.
Queued == {waiting[i][2] : i \in 1..Len(waiting)}

\* C20: at the start of every iteration of the loop, the queue holds only
\* authorizations of the list passed in, each at most once, and holds exactly
\* those never polled or whose most recent poll returned a status other than
\* valid; so the loop is left exactly when every authorization has been polled
\* and its latest polled status is valid.
QueueHoldsTheNotYetValid ==
    (InFlow /\ pc = "loop") =>
        /\ Queued \subseteq Tracked
        /\ \A i, j \in 1..Len(waiting) : waiting[i][2] = waiting[j][2] => i = j
        /\ \A a \in Tracked : a \in Queued <=> polled[a] # STATUS_VALID
        /\ waiting = <<>> <=> \A a \in Tracked : polled[a] = STATUS_VALID

\* C20 witness: of two authorizations passed in as valid, one was polled valid
\* and has left the queue, the other was polled invalid and is in the queue.
ValidPolledAndInvalidRequeued ==
    /\ InFlow /\ pc = "loop" /\ held = STATUS_VALID
    /\ \E a, b \in Tracked :
          /\ polled[a] = STATUS_VALID /\ a \notin Queued
          /\ polled[b] = STATUS_INVALID /\ b \in Queued

====
